---- MODULE Spec2Model ----
(***************************************************************************)
(* A model of server.py: the Flask registration server that keeps one      *)
(* module-level psycopg2 connection and cursor and serves /, /login,       *)
(* /logout, /submit, /success, /home_loggedin and /db_status.              *)
(*                                                                         *)
(* Every database call of a handler (cur.execute, cur.fetchall,            *)
(* cur.fetchone, conn.commit, conn.rollback) is one step.  Under Spec two  *)
(* worker threads of the development server interleave their steps on the  *)
(* shared connection and cursor; under SpecSeq one worker handles the      *)
(* requests one at a time.                                                 *)
(*                                                                         *)
(* Python None and SQL NULL are the string "None".  Integers held in table *)
(* cells (user_id, age) are written as canonical decimal strings.          *)
(***************************************************************************)
EXTENDS Integers, Sequences, FiniteSets, TLC

\* ------------------------------------------------------------------ bounds
\* /submit requests started in one run.
MaxSubmits == 3

\* ------------------------------------------------------------- Python glue
None == "None"

\* Python truthiness of an optional string: None and '' are falsy.
Truthy(s) == s /= None /\ s /= ""

\* Python's  a or b  on optional strings.
PyOr(a, b) == IF Truthy(a) THEN a ELSE b

\* int(s): the canonical decimal of s (surrounding blanks are stripped), or
\* "ValueError" when s is not an integer literal.
ParseInt(s) ==
    CASE s = "1"   -> "1"
      [] s = " 1 " -> "1"
      [] s = "2"   -> "2"
      [] s = "3"   -> "3"
      [] s = "20"  -> "20"
      [] OTHER     -> "ValueError"

Digits == <<"0", "1", "2", "3", "4", "5", "6", "7", "8", "9">>

\* The decimal text of a sequence value.
IntStr(n) ==
    IF n < 10 THEN Digits[n + 1]
    ELSE Digits[((n \div 10) % 10) + 1] \o Digits[(n % 10) + 1]

\* The integer a canonical decimal cell holds (0 for NULL and non-numbers).
IntOf(s) ==
    CASE s = "1"  -> 1
      [] s = "2"  -> 2
      [] s = "3"  -> 3
      [] s = "4"  -> 4
      [] s = "5"  -> 5
      [] s = "6"  -> 6
      [] s = "7"  -> 7
      [] s = "8"  -> 8
      [] s = "9"  -> 9
      [] s = "20" -> 20
      [] OTHER    -> 0

\* Postgres accepts a quoted literal for an integer column when it is numeric.
IsNumeric(s) == ParseInt(s) /= "ValueError"

\* SQL LOWER() over the e-mail addresses in use.
Lower(s) ==
    CASE s = "A@X" -> "a@x"
      [] OTHER     -> s

\* 'int' in dt  for the data_type strings (and is_nullable strings) in use.
HasInt(dt) == dt \in {"integer", "bigint", "smallint"}

SeqRange(s) == {s[i] : i \in 1..Len(s)}

RECURSIVE MaxOf(_)
MaxOf(S) ==
    IF S = {} THEN 0
    ELSE LET x == CHOOSE y \in S : TRUE
             m == MaxOf(S \ {x})
         IN IF x > m THEN x ELSE m

\* ------------------------------------------------------------ request forms
FormFields ==
    {"full_name", "name", "fullname", "fullName", "user_id", "username", "user",
     "password_hash", "password", "email", "phone", "father_name", "father",
     "mother_name", "mother", "address", "age"}

\* request.form.get(k) is None for a field the form does not carry.
EmptyForm == [k \in FormFields |-> None]

FormWith(pairs) ==
    [k \in FormFields |->
        IF \E i \in 1..Len(pairs) : pairs[i][1] = k
        THEN LET i == CHOOSE j \in 1..Len(pairs) : pairs[j][1] = k IN pairs[i][2]
        ELSE None]

\* The forms a client submits; a worker holds the number of the form it was sent
\* (0: a request without form fields).
Forms ==
    << FormWith(<< <<"full_name", "Ann">>, <<"username", "u1">>,
                  <<"email", "a@x">>, <<"password", "p">>, <<"age", "20">> >>),
      FormWith(<< <<"name", "Bob">>, <<"username", "u2">>,
                  <<"email", "A@X">>, <<"user_id", "2">>, <<"age", "abc">> >>),
      FormWith(<< <<"full_name", "Cy">>, <<"username", "u1">>,
                  <<"email", "c@y">>, <<"user_id", "3">> >>),
      FormWith(<< <<"full_name", "Di">>, <<"user", "u3">>,
                  <<"email", "">>, <<"user_id", " 1 ">> >>),
      FormWith(<< <<"full_name", "Ed">>, <<"username", "">>, <<"user", "">>,
                  <<"email", "">>, <<"user_id", "x9">> >>),
      FormWith(<< <<"username", "u4">>, <<"email", "a@x">> >>),
      EmptyForm >>

\* submit(), lines 98-111: the values collected from the form.
Collect(f) ==
    [ full_name     |-> PyOr(PyOr(PyOr(f["full_name"], f["name"]), f["fullname"]), f["fullName"]),
      raw_user_id   |-> f["user_id"],
      username      |-> PyOr(f["username"], f["user"]),
      password_hash |-> PyOr(f["password_hash"], f["password"]),
      email         |-> f["email"],
      phone         |-> f["phone"],
      father_name   |-> PyOr(f["father_name"], f["father"]),
      mother_name   |-> PyOr(f["mother_name"], f["mother"]),
      address       |-> f["address"],
      age           |-> IF Truthy(f["age"]) /\ ParseInt(f["age"]) /= "ValueError"
                        THEN ParseInt(f["age"]) ELSE None ]

desired_order ==
    <<"full_name", "user_id", "username", "password_hash", "email", "phone",
      "father_name", "mother_name", "address", "age">>

\* submit(), lines 123-146: the candidate value of every listed column, user_id
\* filled from the type the handler read for it.
Candidates(v, schema) ==
    [c \in SeqRange(desired_order) |->
        IF c = "user_id"
        THEN IF "user_id" \in DOMAIN schema
             THEN IF HasInt(PyOr(schema["user_id"], ""))
                  THEN IF v.raw_user_id /= None /\ ParseInt(v.raw_user_id) /= "ValueError"
                       THEN ParseInt(v.raw_user_id)
                       ELSE None
                  ELSE PyOr(v.raw_user_id, v.username)
             ELSE None
        ELSE v[c]]

\* meta and meta['default'] is not None
HasDefault(colmeta, c) == c \in DOMAIN colmeta /\ colmeta[c].default /= None

\* submit(), lines 194-202: whether a listed column goes into the INSERT.
InsertsColumn(schema, colmeta, cand, c) ==
    c \in DOMAIN schema /\ ~(cand[c] = None /\ HasDefault(colmeta, c))

\* submit(), lines 190-202: insert_cols, in desired_order.
InsertCols(schema, colmeta, cand) ==
    LET Keep(c) == InsertsColumn(schema, colmeta, cand, c)
    IN SelectSeq(desired_order, Keep)

\* submit(), line 211: a selected column the database requires and the form left out.
IsMissingRequired(colmeta, cand, c) ==
    /\ c \in DOMAIN colmeta
    /\ colmeta[c].is_nullable = "NO"
    /\ colmeta[c].default = None
    /\ cand[c] = None

\* submit(), lines 208-215: the first selected column that fails the check, or None.
FirstMissing(cols, colmeta, cand) ==
    IF \E i \in 1..Len(cols) : IsMissingRequired(colmeta, cand, cols[i])
    THEN cols[CHOOSE i \in 1..Len(cols) :
                /\ IsMissingRequired(colmeta, cand, cols[i])
                /\ \A j \in 1..(i - 1) : ~IsMissingRequired(colmeta, cand, cols[j])]
    ELSE None

\* ------------------------------------------------------ the database
\* column_default of a column fed by the sequence, and of one with a literal default.
SeqDefault == "nextval('registration_user_id_seq'::regclass)"
LitDefault == "'anon'::character varying"

\* A registration table with every listed column: user_id, full_name and username
\* are NOT NULL, user_id and age are integers, nothing has a default, and user_id,
\* username and email carry unique constraints.
BaseTable ==
    [ cols     |-> desired_order,
      type     |-> [c \in SeqRange(desired_order) |->
                      IF c \in {"user_id", "age"} THEN "integer" ELSE "character varying"],
      nullable |-> [c \in SeqRange(desired_order) |->
                      IF c \in {"user_id", "full_name", "username"} THEN "NO" ELSE "YES"],
      default  |-> [c \in SeqRange(desired_order) |-> None],
      unique   |-> {"user_id", "username", "email"} ]

\* The same table restricted to some of its columns, in the same order.
TableOver(keep) ==
    LET In(c) == c \in keep
    IN [ cols     |-> SelectSeq(BaseTable.cols, In),
         type     |-> [c \in keep |-> BaseTable.type[c]],
         nullable |-> [c \in keep |-> BaseTable.nullable[c]],
         default  |-> [c \in keep |-> BaseTable.default[c]],
         unique   |-> BaseTable.unique \cap keep ]

\* The table with one more column at its end.
TableWithColumn(t, c, ty, nl, df) ==
    [ cols     |-> Append(t.cols, c),
      type     |-> [x \in DOMAIN t.type \cup {c} |-> IF x = c THEN ty ELSE t.type[x]],
      nullable |-> [x \in DOMAIN t.type \cup {c} |-> IF x = c THEN nl ELSE t.nullable[x]],
      default  |-> [x \in DOMAIN t.type \cup {c} |-> IF x = c THEN df ELSE t.default[x]],
      unique   |-> t.unique ]

TableCols(t) == SeqRange(t.cols)

InitialRow(t) ==
    [ rid |-> 0,
      v   |-> [c \in TableCols(t) |->
                 CASE c = "user_id"   -> "1"
                   [] c = "username"  -> "u0"
                   [] c = "email"     -> "z@z"
                   [] c = "full_name" -> "Zed"
                   [] OTHER           -> None] ]

\* The databases the server is started against: whether the connection succeeds,
\* the registration table as it is before startup, and the rows it holds.
Deployments ==
    << [connect |-> FALSE, tbl |-> BaseTable, rows |-> <<>>],
      [connect |-> TRUE,  tbl |-> BaseTable, rows |-> <<>>],
      [connect |-> TRUE,
       tbl     |-> [BaseTable EXCEPT !.default["full_name"] = LitDefault],
       rows    |-> <<InitialRow(BaseTable)>>],
      [connect |-> TRUE,
       tbl     |-> [BaseTable EXCEPT !.type["user_id"] = "text"],
       rows    |-> <<>>],
      [connect |-> TRUE,
       tbl     |-> TableOver(SeqRange(desired_order) \ {"email"}),
       rows    |-> <<>>],
      [connect |-> TRUE,
       tbl     |-> TableWithColumn(TableOver({}), "id", "integer", "NO",
                                  "nextval('registration_id_seq'::regclass)"),
       rows    |-> <<>>],
      [connect |-> TRUE,
       tbl     |-> TableWithColumn(BaseTable, "created_by", "text", "NO", None),
       rows    |-> <<>>] >>

\* SELECT MAX(user_id) FROM registration, COALESCEd to 0.
MaxUserId(t, rs) ==
    MaxOf({IntOf(rs[i].v["user_id"]) : i \in 1..Len(rs)})

\* Module startup, lines 36-54: the four statements run in one transaction, which
\* is rolled back when one of them fails: ALTER TABLE needs the user_id column,
\* MAX and setval need it to be an integer, and setval rejects 0 (a sequence
\* starts at 1), which is what COALESCE yields for an empty table.
SetupSucceeds(d) ==
    /\ d.connect
    /\ "user_id" \in TableCols(d.tbl)
    /\ HasInt(d.tbl.type["user_id"])
    /\ MaxUserId(d.tbl, d.rows) >= 1

TableAfterStartup(d) ==
    IF SetupSucceeds(d)
    THEN [d.tbl EXCEPT !.default["user_id"] = SeqDefault]
    ELSE d.tbl

SeqAfterStartup(d) ==
    IF SetupSucceeds(d) THEN MaxUserId(d.tbl, d.rows) ELSE 0

\* The table each deployment has once startup is over.
Tables == [i \in DOMAIN Deployments |-> TableAfterStartup(Deployments[i])]

\* What submit collects from each form.
Collected == [i \in DOMAIN Forms |-> Collect(Forms[i])]

VARIABLES
    dep,        \* the deployment the server runs against
    connected,  \* cur and conn are not None
    rows,       \* the committed rows of registration, oldest first
    pending,    \* rows inserted by the connection's open transaction
    txnFailed,  \* the open transaction is aborted until the next rollback
    seq,        \* last value of registration_user_id_seq
    cur,        \* the shared cursor: its last statement's result and position
    session,    \* the client's session['user'], or NoUser
    nsub,       \* /submit requests started
    pc,         \* per worker: where its handler stands
    route,      \* per worker: the route of its current or last request
    rid,        \* per worker: the number of its current or last /submit
    form,       \* per worker: request.form, as a number of Forms
    schema,     \* per worker: submit's local schema
    colmeta,    \* per worker: submit's local colmeta
    exc,        \* per worker: the exception or duplicate it is handling
    ins,        \* per worker: the INSERT it last built
    resp        \* per worker: its last response

vars ==
    <<dep, connected, rows, pending, txnFailed, seq, cur, session, nsub,
      pc, route, rid, form, schema, colmeta, exc, ins, resp>>

dbVars == <<dep, connected, rows, pending, txnFailed, seq, cur>>

\* The registration table's definition.
tbl == Tables[dep]

\* The values the worker's submit collected, lines 98-111.
Vals(t) == IF form[t] = 0 THEN Collect(EmptyForm) ELSE Collected[form[t]]

Workers == {1, 2}

NoUser == "NoUser"
NoResp == [kind |-> "none", status |-> 0, col |-> None]
NoInsert == [cols |-> <<>>, vals |-> <<>>]
NoCursor == [kind |-> "none", n |-> 0, pos |-> 0]
\* The cursor after a statement that returns no rows to fetch, or that failed.
NoRows == [kind |-> "norows", n |-> 0, pos |-> 0]

\* What the open transaction sees of registration.
Visible == rows \o pending

\* EmailExists comparing the e-mail as it is written, without LOWER().
EmailExistsExact(e) ==
    \E i \in 1..Len(Visible) : Visible[i].v["email"] = e

\* SELECT 1 FROM registration WHERE LOWER(email) = LOWER(%s) LIMIT 1
EmailExists(e) ==
    \E i \in 1..Len(Visible) :
        /\ Visible[i].v["email"] /= None
        /\ Lower(Visible[i].v["email"]) = Lower(e)

\* SELECT 1 FROM registration WHERE username = %s LIMIT 1
UsernameExists(u) ==
    \E i \in 1..Len(Visible) : Visible[i].v["username"] = u

\* The value a column's default produces.
DefaultValue(c) ==
    IF tbl.default[c] = SeqDefault THEN IntStr(seq + 1) ELSE "anon"

\* The row an INSERT of vals into cols stores: a column it does not name takes its
\* default (NULL without one); a numeric literal is stored in canonical form.
StoredRow(cols, vals) ==
    [c \in TableCols(tbl) |->
        IF \E i \in 1..Len(cols) : cols[i] = c
        THEN LET x == vals[CHOOSE i \in 1..Len(cols) : cols[i] = c]
             IN IF HasInt(tbl.type[c]) /\ x /= None /\ IsNumeric(x) THEN ParseInt(x) ELSE x
        ELSE IF tbl.default[c] /= None THEN DefaultValue(c) ELSE None]

\* Whether the INSERT draws a value from the sequence.
DrawsSequence(cols) ==
    \E c \in TableCols(tbl) \ SeqRange(cols) : tbl.default[c] = SeqDefault

\* What the database answers to the INSERT.
InsertOutcome(cols, vals) ==
    LET r == StoredRow(cols, vals)
    IN CASE txnFailed -> "InFailedSqlTransaction"
         [] \E c \in SeqRange(cols) \ TableCols(tbl) : TRUE -> "UndefinedColumn"
         [] \E i \in 1..Len(cols) :
                HasInt(tbl.type[cols[i]]) /\ vals[i] /= None /\ ~IsNumeric(vals[i])
              -> "DataError"
         [] \E c \in TableCols(tbl) : tbl.nullable[c] = "NO" /\ r[c] = None
              -> "NotNullViolation"
         [] \E c \in tbl.unique : \E i \in 1..Len(Visible) :
                r[c] /= None /\ Visible[i].v[c] = r[c]
              -> "UniqueViolation"
         [] OTHER -> "ok"

\* ------------------------------------------------------ responses
\* The status code each response of the server carries.
StatusOf(kind) ==
    CASE kind = "redirect_success"     -> 302
      [] kind = "redirect_home"        -> 302
      [] kind = "redirect_index"       -> 302
      [] kind = "db_not_connected"     -> 500
      [] kind = "email_registered"     -> 409
      [] kind = "username_taken"       -> 409
      [] kind = "no_matching_columns"  -> 500
      [] kind = "required_missing"     -> 400
      [] kind = "duplicate_value"      -> 400
      [] kind = "integrity_error"      -> 400
      [] kind = "error_saving"         -> 200
      [] kind = "db_connection_error"  -> 500
      [] kind = "db_error"             -> 500
      [] OTHER                         -> 200

Response(kind, col) == [kind |-> kind, status |-> StatusOf(kind), col |-> col]

\* The worker returns r: its locals go, its last request's form and INSERT stay on
\* record until it takes its next request.
Return(t, r) ==
    /\ pc' = [pc EXCEPT ![t] = "idle"]
    /\ resp' = [resp EXCEPT ![t] = r]
    /\ schema' = [schema EXCEPT ![t] = <<>>]
    /\ colmeta' = [colmeta EXCEPT ![t] = <<>>]
    /\ exc' = [exc EXCEPT ![t] = ""]

\* The worker takes a request of route r carrying form f.
Take(t, r, f) ==
    /\ pc[t] = "idle"
    /\ route' = [route EXCEPT ![t] = r]
    /\ form' = [form EXCEPT ![t] = f]
    /\ rid' = [rid EXCEPT ![t] = IF r = "/submit" THEN nsub + 1 ELSE 0]
    /\ ins' = [ins EXCEPT ![t] = NoInsert]

\* An exception leaves the try block for the except clauses of lines 224-249.
Raise(t, e) ==
    /\ pc' = [pc EXCEPT ![t] = "handler"]
    /\ exc' = [exc EXCEPT ![t] = e]

Goto(t, p) ==
    /\ pc' = [pc EXCEPT ![t] = p]
    /\ exc' = exc

\* Where submit goes after the colmeta read, and after an e-mail check that found
\* nothing: lines 160 and 175.
AfterMeta(t) ==
    IF Truthy(Vals(t).email) THEN "exec_email"
    ELSE IF Truthy(Vals(t).username) THEN "exec_username"
    ELSE "build"

AfterEmail(t) ==
    IF Truthy(Vals(t).username) THEN "exec_username" ELSE "build"

\* The column names cur.fetchall() still has to hand out.
Remaining == SeqRange(SubSeq(tbl.cols, cur.pos + 1, cur.n))

Consumed == [cur EXCEPT !.pos = cur.n]

\* ------------------------------------------------------ the routes
\* index(), lines 76-86.
Index(t) ==
    /\ Take(t, "/", 0)
    /\ Return(t, Response("form", None))
    /\ UNCHANGED <<dbVars, session, nsub>>

\* login() on GET, lines 63-69.
LoginGet(t) ==
    /\ Take(t, "/login", 0)
    /\ Return(t, Response("login_form", None))
    /\ UNCHANGED <<dbVars, session, nsub>>

\* LoginPostBody logging in only a username that a row of registration has.
LoginPostVerifying(t, f) ==
    /\ Take(t, "/login", f)
    /\ session' = IF UsernameExists(Forms[f]["username"])
                  THEN Forms[f]["username"] ELSE session
    /\ Return(t, Response("redirect_home", None))
    /\ UNCHANGED <<dbVars, nsub>>

\* login() on POST, lines 59-62: session['user'] = request.form.get('username').
LoginPostBody(t, f) ==
    /\ Take(t, "/login", f)
    /\ session' = Forms[f]["username"]
    /\ Return(t, Response("redirect_home", None))
    /\ UNCHANGED <<dbVars, nsub>>

\* The forms posted to /login: the first, which names a user, and the last, the
\* empty one.
LoginForms == {1, Len(Forms)}

LoginPost(t) == \E f \in LoginForms : LoginPostBody(t, f)

\* logout(), lines 71-74.
Logout(t) ==
    /\ Take(t, "/logout", 0)
    /\ session' = NoUser
    /\ Return(t, Response("redirect_index", None))
    /\ UNCHANGED <<dbVars, nsub>>

\* success(), lines 251-258.
Success(t) ==
    /\ Take(t, "/success", 0)
    /\ Return(t, Response("success_page", None))
    /\ UNCHANGED <<dbVars, session, nsub>>

\* home_loggedin(), lines 260-263.
HomeLoggedIn(t) ==
    /\ Take(t, "/home_loggedin", 0)
    /\ Return(t, Response("home_loggedin", None))
    /\ UNCHANGED <<dbVars, session, nsub>>

\* db_status(), lines 267-270: the connection test and cur.execute('SELECT 1').
DbStatus(t) ==
    /\ Take(t, "/db_status", 0)
    /\ IF ~connected
       THEN /\ Return(t, Response("db_connection_error", None))
            /\ cur' = cur
       ELSE IF txnFailed
       THEN /\ Return(t, Response("db_error", None))
            /\ cur' = NoRows
       ELSE /\ Goto(t, "ds_fetch")
            /\ cur' = [kind |-> "sel1", n |-> 1, pos |-> 0]
            /\ UNCHANGED <<resp, schema, colmeta>>
    /\ UNCHANGED <<dep, connected, rows, pending, txnFailed, seq, session, nsub>>

\* db_status(), lines 271-274: cur.fetchone() and the answer.
DbStatusFetch(t) ==
    /\ pc[t] = "ds_fetch"
    /\ IF cur.kind \in {"none", "norows"}
       THEN /\ Return(t, Response("db_error", None))
            /\ cur' = cur
       ELSE /\ Return(t, Response("db_ok", None))
            /\ cur' = [cur EXCEPT !.pos = IF cur.pos < cur.n THEN cur.pos + 1 ELSE cur.pos]
    /\ UNCHANGED <<dep, connected, rows, pending, txnFailed, seq, session, nsub,
                   route, rid, form, ins>>

\* SubmitStartBody without the test of cur and conn.
SubmitStartUntested(t, f) ==
    /\ nsub < MaxSubmits
    /\ Take(t, "/submit", f)
    /\ nsub' = nsub + 1
    /\ Goto(t, "exec_schema")
    /\ UNCHANGED <<resp, schema, colmeta>>
    /\ UNCHANGED <<dbVars, session>>

\* submit(), lines 90-111: the connection test and the form values.
SubmitStartBody(t, f) ==
    /\ nsub < MaxSubmits
    /\ Take(t, "/submit", f)
    /\ nsub' = nsub + 1
    /\ IF ~connected
       THEN Return(t, Response("db_not_connected", None))
       ELSE /\ Goto(t, "exec_schema")
            /\ UNCHANGED <<resp, schema, colmeta>>
    /\ UNCHANGED <<dbVars, session>>

SubmitStart(t) == \E f \in DOMAIN Forms : SubmitStartBody(t, f)

\* submit(), lines 115-119: cur.execute of the data_type query.
ExecSchema(t) ==
    /\ pc[t] = "exec_schema"
    /\ IF txnFailed
       THEN /\ Raise(t, "InFailedSqlTransaction")
            /\ cur' = NoRows
       ELSE /\ Goto(t, "fetch_schema")
            /\ cur' = [kind |-> "schema", n |-> Len(tbl.cols), pos |-> 0]
    /\ UNCHANGED <<dep, connected, rows, pending, txnFailed, seq, session, nsub,
                   route, rid, form, schema, colmeta, ins, resp>>

\* submit(), line 120: schema = {row[0]: row[1] for row in cur.fetchall()}, read
\* from whatever the shared cursor holds now.
FetchSchema(t) ==
    /\ pc[t] = "fetch_schema"
    /\ IF cur.kind \in {"none", "norows"}
       THEN /\ Raise(t, "ProgrammingError")
            /\ UNCHANGED <<cur, schema>>
       ELSE IF cur.kind = "sel1" /\ cur.pos < cur.n
       THEN /\ Raise(t, "IndexError")
            /\ cur' = Consumed
            /\ schema' = schema
       ELSE /\ Goto(t, "exec_meta")
            /\ cur' = Consumed
            /\ schema' = [schema EXCEPT ![t] =
                 IF cur.kind = "sel1" THEN <<>>
                 ELSE [c \in Remaining |->
                         IF cur.kind = "schema" THEN tbl.type[c] ELSE tbl.nullable[c]]]
    /\ UNCHANGED <<dep, connected, rows, pending, txnFailed, seq, session, nsub,
                   route, rid, form, colmeta, ins, resp>>

\* submit(), lines 149-153: cur.execute of the is_nullable/column_default query.
ExecMeta(t) ==
    /\ pc[t] = "exec_meta"
    /\ IF txnFailed
       THEN /\ Raise(t, "InFailedSqlTransaction")
            /\ cur' = NoRows
       ELSE /\ Goto(t, "fetch_meta")
            /\ cur' = [kind |-> "meta", n |-> Len(tbl.cols), pos |-> 0]
    /\ UNCHANGED <<dep, connected, rows, pending, txnFailed, seq, session, nsub,
                   route, rid, form, schema, colmeta, ins, resp>>

\* submit(), line 154: colmeta from cur.fetchall(); a two-column or one-column row
\* has no r[2].
FetchMeta(t) ==
    /\ pc[t] = "fetch_meta"
    /\ IF cur.kind \in {"none", "norows"}
       THEN /\ Raise(t, "ProgrammingError")
            /\ UNCHANGED <<cur, colmeta>>
       ELSE IF cur.kind \in {"sel1", "schema"} /\ cur.pos < cur.n
       THEN /\ Raise(t, "IndexError")
            /\ cur' = Consumed
            /\ colmeta' = colmeta
       ELSE /\ Goto(t, AfterMeta(t))
            /\ cur' = Consumed
            /\ colmeta' = [colmeta EXCEPT ![t] =
                 IF cur.kind = "meta"
                 THEN [c \in Remaining |->
                         [is_nullable |-> tbl.nullable[c], default |-> tbl.default[c]]]
                 ELSE <<>>]
    /\ UNCHANGED <<dep, connected, rows, pending, txnFailed, seq, session, nsub,
                   route, rid, form, schema, ins, resp>>

\* submit(), lines 160-164: cur.execute of the e-mail check.  An error here (the
\* transaction is aborted, or the table has no email column) is caught at line
\* 185 and submit goes on to build the INSERT.
ExecEmail(t) ==
    /\ pc[t] = "exec_email"
    /\ IF txnFailed \/ "email" \notin TableCols(tbl)
       THEN /\ Goto(t, "build")
            /\ cur' = NoRows
            /\ txnFailed' = TRUE
       ELSE /\ Goto(t, "fetch_email")
            /\ cur' = [kind |-> "sel1",
                       n    |-> IF EmailExists(Vals(t).email) THEN 1 ELSE 0,
                       pos  |-> 0]
            /\ txnFailed' = txnFailed
    /\ UNCHANGED <<dep, connected, rows, pending, seq, session, nsub,
                   route, rid, form, schema, colmeta, ins, resp>>

\* submit(), line 165: if cur.fetchone() on the shared cursor; any row is truthy.
FetchEmail(t) ==
    /\ pc[t] = "fetch_email"
    /\ IF cur.kind \in {"none", "norows"}
       THEN /\ Goto(t, "build")
            /\ cur' = cur
       ELSE IF cur.pos < cur.n
       THEN /\ pc' = [pc EXCEPT ![t] = "rollback_dup"]
            /\ exc' = [exc EXCEPT ![t] = "email_registered"]
            /\ cur' = [cur EXCEPT !.pos = cur.pos + 1]
       ELSE /\ Goto(t, AfterEmail(t))
            /\ cur' = cur
    /\ UNCHANGED <<dep, connected, rows, pending, txnFailed, seq, session, nsub,
                   route, rid, form, schema, colmeta, ins, resp>>

\* submit(), line 176: cur.execute of the username check.
ExecUsername(t) ==
    /\ pc[t] = "exec_username"
    /\ IF txnFailed \/ "username" \notin TableCols(tbl)
       THEN /\ Goto(t, "build")
            /\ cur' = NoRows
            /\ txnFailed' = TRUE
       ELSE /\ Goto(t, "fetch_username")
            /\ cur' = [kind |-> "sel1",
                       n    |-> IF UsernameExists(Vals(t).username) THEN 1 ELSE 0,
                       pos  |-> 0]
            /\ txnFailed' = txnFailed
    /\ UNCHANGED <<dep, connected, rows, pending, seq, session, nsub,
                   route, rid, form, schema, colmeta, ins, resp>>

\* submit(), line 177.
FetchUsername(t) ==
    /\ pc[t] = "fetch_username"
    /\ IF cur.kind \in {"none", "norows"}
       THEN /\ Goto(t, "build")
            /\ cur' = cur
       ELSE IF cur.pos < cur.n
       THEN /\ pc' = [pc EXCEPT ![t] = "rollback_dup"]
            /\ exc' = [exc EXCEPT ![t] = "username_taken"]
            /\ cur' = [cur EXCEPT !.pos = cur.pos + 1]
       ELSE /\ Goto(t, "build")
            /\ cur' = cur
    /\ UNCHANGED <<dep, connected, rows, pending, txnFailed, seq, session, nsub,
                   route, rid, form, schema, colmeta, ins, resp>>

\* conn.rollback(): the open transaction's inserts are gone.
Rollback ==
    /\ pending' = <<>>
    /\ txnFailed' = FALSE

\* submit(), lines 166-172 and 178-184: the rollback and the 409.
RollbackDuplicate(t) ==
    /\ pc[t] = "rollback_dup"
    /\ Rollback
    /\ Return(t, Response(exc[t], None))
    /\ UNCHANGED <<dep, connected, rows, seq, cur, session, nsub, route, rid, form, ins>>

\* HandlerOf with the unique violation taken for success.
HandlerOfIgnoringDuplicate(e) ==
    CASE e = "UniqueViolation"  -> "redirect_success"
      [] e = "NotNullViolation" -> "integrity_error"
      [] OTHER                  -> "error_saving"

\* The exception class psycopg2 raises for what the database answered, as the
\* except clauses of lines 224-243 tell them apart.
HandlerOf(e) ==
    CASE e = "UniqueViolation"  -> "duplicate_value"
      [] e = "NotNullViolation" -> "integrity_error"
      [] OTHER                  -> "error_saving"

\* submit(), lines 190-219: insert_cols and values, the two early returns, and
\* cur.execute of the INSERT.
BuildAndInsert(t) ==
    /\ pc[t] = "build"
    /\ LET cand   == Candidates(Vals(t), schema[t])
           cols   == InsertCols(schema[t], colmeta[t], cand)
           values == [i \in 1..Len(cols) |-> cand[cols[i]]]
           miss   == FirstMissing(cols, colmeta[t], cand)
           out    == InsertOutcome(cols, values)
       IN IF cols = <<>>
          THEN /\ Return(t, Response("no_matching_columns", None))
               /\ UNCHANGED <<pending, txnFailed, seq, cur, ins>>
          ELSE IF miss /= None
          THEN /\ Return(t, Response("required_missing", miss))
               /\ UNCHANGED <<pending, txnFailed, seq, cur, ins>>
          ELSE /\ ins' = [ins EXCEPT ![t] = [cols |-> cols, vals |-> values]]
               /\ cur' = NoRows
               /\ seq' = IF out \in {"ok", "NotNullViolation", "UniqueViolation"}
                            /\ DrawsSequence(cols)
                         THEN seq + 1 ELSE seq
               /\ IF out = "ok"
                  THEN /\ pending' = Append(pending,
                                            [rid |-> rid[t], v |-> StoredRow(cols, values)])
                       /\ txnFailed' = txnFailed
                       /\ Goto(t, "commit")
                  ELSE /\ pending' = pending
                       /\ txnFailed' = TRUE
                       /\ Raise(t, out)
               /\ UNCHANGED <<resp, schema, colmeta>>
    /\ UNCHANGED <<dep, connected, rows, session, nsub, route, rid, form>>

\* CommitTxn left out: the transaction stays open and nothing is committed.
CommitTxnMissing ==
    /\ rows' = rows
    /\ pending' = pending
    /\ txnFailed' = txnFailed

\* conn.commit(): the open transaction's inserts become rows of the table; the
\* COMMIT of an aborted transaction is answered with a rollback and no error.
CommitTxn ==
    /\ rows' = IF txnFailed THEN rows ELSE rows \o pending
    /\ pending' = <<>>
    /\ txnFailed' = FALSE

\* submit(), lines 220-222: the commit and the redirect to /success.
Commit(t) ==
    /\ pc[t] = "commit"
    /\ CommitTxn
    /\ Return(t, Response("redirect_success", None))
    /\ UNCHANGED <<dep, connected, seq, cur, session, nsub, route, rid, form, ins>>

\* submit(), lines 224-249: the except clauses: a rollback and the error page.
HandleException(t) ==
    /\ pc[t] = "handler"
    /\ Rollback
    /\ Return(t, Response(HandlerOf(exc[t]), None))
    /\ UNCHANGED <<dep, connected, rows, seq, cur, session, nsub, route, rid, form, ins>>

\* ------------------------------------------------------ the system
InitOf(d) ==
    /\ dep = d
    /\ connected = Deployments[d].connect
    /\ rows = Deployments[d].rows
    /\ pending = <<>>
    /\ txnFailed = FALSE
    /\ seq = SeqAfterStartup(Deployments[d])
    /\ cur = NoCursor
    /\ session = NoUser
    /\ nsub = 0
    /\ pc = [t \in Workers |-> "idle"]
    /\ route = [t \in Workers |-> ""]
    /\ rid = [t \in Workers |-> 0]
    /\ form = [t \in Workers |-> 0]
    /\ schema = [t \in Workers |-> <<>>]
    /\ colmeta = [t \in Workers |-> <<>>]
    /\ exc = [t \in Workers |-> ""]
    /\ ins = [t \in Workers |-> NoInsert]
    /\ resp = [t \in Workers |-> NoResp]

Init == \E d \in DOMAIN Deployments : InitOf(d)

Step(t) ==
    \/ Index(t)
    \/ LoginGet(t)
    \/ LoginPost(t)
    \/ Logout(t)
    \/ Success(t)
    \/ HomeLoggedIn(t)
    \/ DbStatus(t)
    \/ DbStatusFetch(t)
    \/ SubmitStart(t)
    \/ ExecSchema(t)
    \/ FetchSchema(t)
    \/ ExecMeta(t)
    \/ FetchMeta(t)
    \/ ExecEmail(t)
    \/ FetchEmail(t)
    \/ ExecUsername(t)
    \/ FetchUsername(t)
    \/ RollbackDuplicate(t)
    \/ BuildAndInsert(t)
    \/ Commit(t)
    \/ HandleException(t)

\* One worker: the requests, to any route, are handled one at a time.
NextSeq == Step(1)

SpecSeq == Init /\ [][NextSeq]_vars

\* One of two concurrent /submit requests arrives at its worker thread; worker 1
\* takes the one that arrives first.
Arrive(t) ==
    /\ resp[t] = NoResp
    /\ (t = 2) => (pc[1] /= "idle" \/ resp[1] /= NoResp)
    /\ SubmitStart(t)

SubmitStep(t) ==
    \/ Arrive(t)
    \/ ExecSchema(t)
    \/ FetchSchema(t)
    \/ ExecMeta(t)
    \/ FetchMeta(t)
    \/ ExecEmail(t)
    \/ FetchEmail(t)
    \/ ExecUsername(t)
    \/ FetchUsername(t)
    \/ RollbackDuplicate(t)
    \/ BuildAndInsert(t)
    \/ Commit(t)
    \/ HandleException(t)

\* Two /submit requests on two worker threads of the development server: their
\* database calls interleave on the shared connection and cursor.
Next == \E t \in Workers : SubmitStep(t)

Spec == Init /\ [][Next]_vars

\* ------------------------------------------------------ the claims
\* The worker has answered a request.
Done(t) == pc[t] = "idle" /\ resp[t] /= NoResp

DoneSubmit(t) == Done(t) /\ route[t] = "/submit"

\* The row the worker's /submit inserted is a committed row of registration.
Added(t) == \E i \in 1..Len(rows) : rows[i].rid = rid[t]

Redirected(t) == resp[t].kind = "redirect_success"

\* The committed rows other requests added.
OtherRows(t) == {rows[i] : i \in {j \in 1..Len(rows) : rows[j].rid /= rid[t]}}

\* The server reached the database, and registration carries the unique
\* constraints on email and username.
UniqueInPlace == connected /\ {"email", "username"} \subseteq tbl.unique

\* The two requests carry the same non-empty email or the same non-empty username.
SameKey ==
    \/ Truthy(Vals(1).email) /\ Vals(1).email = Vals(2).email
    \/ Truthy(Vals(1).username) /\ Vals(1).username = Vals(2).username

BothDone == DoneSubmit(1) /\ DoneSubmit(2) /\ UniqueInPlace /\ SameKey

\* C1 as stated: of two /submit requests with the same non-empty email or username,
\* at most one adds a row, and when one has added its row the other has answered
\* 409 (pre-insert check) or 400 'Duplicate value'.
C1_LoserGets409Or400Duplicate ==
    BothDone =>
        /\ ~(Added(1) /\ Added(2))
        /\ \A t \in Workers : \A u \in Workers \ {t} :
              Added(t) => resp[u].kind \in {"email_registered", "username_taken",
                                            "duplicate_value"}

\* C1 as amended: of two /submit requests with the same non-empty email or username,
\* under every interleaving, at most one adds a row and at most one answers with
\* the redirect to /success; a request that does not redirect answers with one of
\* the error pages: 409, 400 (duplicate value, missing required column, other
\* integrity error), 500 (no matching columns) or the 'Error saving data' page.
C1_AtMostOneRowAndOneRedirect ==
    BothDone =>
        /\ ~(Added(1) /\ Added(2))
        /\ ~(Redirected(1) /\ Redirected(2))
        /\ \A t \in Workers :
              ~Redirected(t) =>
                  resp[t].kind \in {"email_registered", "username_taken", "duplicate_value",
                                    "required_missing", "integrity_error",
                                    "no_matching_columns", "error_saving"}

\* Both requests passed the pre-insert check, the first one's row is committed and
\* the unique constraint turned the second one down.
C1_Witness ==
    /\ BothDone
    /\ Added(1)
    /\ Redirected(1)
    /\ resp[2].kind = "duplicate_value"

\* C8 as stated: a /submit that answers with the redirect to /success has its row
\* committed in registration, whatever the other request did meanwhile.
C8_RedirectMeansCommitted ==
    \A t \in Workers : (DoneSubmit(t) /\ Redirected(t)) => Added(t)

\* The INSERT statement has just been executed by the worker.
Inserted(t) == pc[t] \in {"commit", "handler"} /\ ins[t] /= NoInsert

\* A committed row of another request holds this e-mail, ignoring case.
EmailTaken(t, e) ==
    \E r \in OtherRows(t) : r.v["email"] /= None /\ Lower(r.v["email"]) = Lower(e)

UsernameTaken(t, u) == \E r \in OtherRows(t) : r.v["username"] = u

\* What C2 says, of every e-mail and username or of the non-empty ones only.
PreCheckAvoidsDuplicates(nonEmptyOnly) ==
    LET e == Vals(1).email
        u == Vals(1).username
        dupEmail == e /= None /\ (nonEmptyOnly => Truthy(e)) /\ EmailTaken(1, e)
        dupUser  == u /= None /\ (nonEmptyOnly => Truthy(u)) /\ UsernameTaken(1, u)
    IN (route[1] = "/submit" /\ UniqueInPlace) =>
          /\ Inserted(1) => ~dupEmail /\ ~dupUser
          /\ (Done(1) /\ dupEmail) =>
                resp[1].kind = "email_registered" /\ resp[1].status = 409 /\ ~Added(1)
          /\ (Done(1) /\ ~dupEmail /\ dupUser) =>
                resp[1].kind = "username_taken" /\ resp[1].status = 409 /\ ~Added(1)

\* C2 as stated: with requests handled one at a time, no /submit reaches the INSERT
\* with a username that a row already has or an e-mail that a row already has
\* ignoring case; it answers 409, 'Email already registered' when the e-mail
\* matches and otherwise 'Username already taken', and adds no row.
C2_PreCheckCatchesEveryDuplicate == PreCheckAvoidsDuplicates(FALSE)

\* C2 as amended: the same, for a non-empty e-mail and a non-empty username; an
\* empty string is not checked and reaches the INSERT.
C2_PreCheckCatchesNonEmptyDuplicates == PreCheckAvoidsDuplicates(TRUE)

\* An e-mail that differs from the registered one only in case was turned down.
C2_Witness ==
    /\ DoneSubmit(1)
    /\ UniqueInPlace
    /\ resp[1].kind = "email_registered"
    /\ EmailTaken(1, Vals(1).email)
    /\ \A r \in OtherRows(1) : r.v["email"] /= Vals(1).email
    /\ ~Added(1)

\* The step in which the worker answers its request.
Answers(t) == pc'[t] = "idle" /\ (pc[t] /= "idle" \/ resp'[t] /= resp[t] \/ route'[t] /= route[t])

\* C3: with requests to any route handled one at a time, registration changes
\* only by appending: the step that answers /submit with the redirect to /success
\* appends exactly one row, and every other step leaves every committed row as
\* it is.
C3_AppendOnly ==
    [][ IF pc[1] = "commit" /\ resp'[1].kind = "redirect_success"
        THEN Len(rows') = Len(rows) + 1 /\ SubSeq(rows', 1, Len(rows)) = rows
                /\ rows'[Len(rows')].rid = rid[1]
        ELSE rows' = rows ]_vars

\* A second registration was appended behind an earlier one.
C3_Witness ==
    /\ DoneSubmit(1)
    /\ Redirected(1)
    /\ Len(rows) >= 2
    /\ rows[Len(rows)].rid = rid[1]
    /\ rows[Len(rows)].rid > 1

\* The value submit collects for a listed column, user_id by the column's type.
ValueFor(t, c) == Candidates(Vals(t), tbl.type)[c]

\* The form gives no user_id, or one that is no integer.
NoIntegerUserId(t) ==
    Vals(t).raw_user_id = None \/ ParseInt(Vals(t).raw_user_id) = "ValueError"

AnswerWithoutDb(t) ==
    CASE route[t] = "/submit"        -> resp[t].kind = "db_not_connected" /\ resp[t].status = 500
      [] route[t] = "/db_status"     -> resp[t].kind = "db_connection_error" /\ resp[t].status = 500
      [] route[t] = "/"              -> resp[t].kind = "form" /\ resp[t].status = 200
      [] route[t] = "/login"         -> \/ resp[t].kind = "login_form" /\ resp[t].status = 200
                                        \/ resp[t].kind = "redirect_home" /\ resp[t].status = 302
      [] route[t] = "/logout"        -> resp[t].kind = "redirect_index" /\ resp[t].status = 302
      [] route[t] = "/success"       -> resp[t].kind = "success_page" /\ resp[t].status = 200
      [] route[t] = "/home_loggedin" -> resp[t].kind = "home_loggedin" /\ resp[t].status = 200
      [] OTHER                       -> FALSE

\* C5: when the connection failed at startup it stays missing; every /submit
\* then answers 500 'DB not connected' and every /db_status 500, no statement
\* is executed and no row added, and the other routes answer as usual.
C5_NoDatabase ==
    /\ [](~connected =>
            /\ cur = NoCursor /\ pending = <<>> /\ ~txnFailed
            /\ rows = Deployments[dep].rows
            /\ \A t \in Workers : pc[t] = "idle"
            /\ \A t \in Workers : Done(t) => AnswerWithoutDb(t))
    /\ [][~connected => ~connected']_vars

\* /db_status has answered 500 after a /submit, and a login went through.
C5_Witness ==
    /\ ~connected
    /\ Done(1)
    /\ route[1] = "/db_status"
    /\ resp[1].status = 500
    /\ nsub >= 1
    /\ session /= NoUser

\* The worker's step is a POST to /login (a GET carries no form), a /logout.
IsLoginPost == pc[1] = "idle" /\ pc'[1] = "idle" /\ route'[1] = "/login" /\ form'[1] /= 0

IsLogout == pc[1] = "idle" /\ pc'[1] = "idle" /\ route'[1] = "/logout"

\* C6: a POST to /login sets the session user to the posted username, whether
\* or not a row has it, redirects to home_loggedin and neither reads nor changes
\* the database; /logout removes the session user; no other step, a successful
\* /submit included, changes the session.
C6_LoginVerifiesNothing ==
    [][ /\ IsLoginPost =>
              /\ session' = Forms[form'[1]]["username"]
              /\ resp'[1].kind = "redirect_home" /\ resp'[1].status = 302
              /\ UNCHANGED dbVars
        /\ IsLogout => session' = NoUser
        /\ (session' /= session) => (IsLoginPost \/ IsLogout)
      ]_vars

\* A user no row names is logged in.
C6_Witness ==
    /\ session = "u1"
    /\ connected
    /\ \A i \in 1..Len(rows) : rows[i].v["username"] /= "u1"
    /\ \E t \in Workers : DoneSubmit(t) /\ Redirected(t)

\* The columns a request at the point of building its INSERT has selected, and
\* the values it holds for the listed columns.
SelectedCols(t) ==
    InsertCols(schema[t], colmeta[t], Candidates(Vals(t), schema[t]))

\* A selected column that the table declares NOT NULL without default and for
\* which the request holds None.
RequiredAndMissing(t, c) ==
    /\ c \in SeqRange(SelectedCols(t))
    /\ c \in TableCols(tbl)
    /\ tbl.nullable[c] = "NO"
    /\ tbl.default[c] = None
    /\ Candidates(Vals(t), schema[t])[c] = None

\* C7 as stated: /submit never executes an INSERT that carries NULL for a NOT NULL
\* column without default; when such a column is selected with the value None,
\* the step that would build the INSERT answers 400 naming such a column and
\* leaves the database as it is.
C7_RequiredColumns ==
    [][ \A t \in Workers :
          (pc[t] = "build" /\ pc'[t] /= "build") =>
             IF \E c \in SeqRange(desired_order) : RequiredAndMissing(t, c)
             THEN /\ resp'[t].kind = "required_missing" /\ resp'[t].status = 400
                  /\ RequiredAndMissing(t, resp'[t].col)
                  /\ pc'[t] = "idle"
                  /\ ins'[t] = NoInsert
                  /\ UNCHANGED <<rows, pending, cur, seq>>
             ELSE \A i \in 1..Len(ins'[t].cols) :
                     ~( /\ ins'[t].vals[i] = None
                        /\ tbl.nullable[ins'[t].cols[i]] = "NO"
                        /\ tbl.default[ins'[t].cols[i]] = None )
      ]_vars

\* C9 as stated: with user_id an integer column fed by the sequence, the value
\* the sequence generates for an INSERT without user_id never equals the user_id
\* of an existing row.
C9_GeneratedIdIsFresh ==
    ( /\ pc[1] \in {"commit", "handler"}
      /\ ins[1] /= NoInsert
      /\ exc[1] \in {"", "UniqueViolation", "NotNullViolation"}
      /\ "user_id" \in TableCols(tbl)
      /\ tbl.default["user_id"] = SeqDefault
      /\ "user_id" \notin SeqRange(ins[1].cols) ) =>
        \A i \in 1..Len(rows) : rows[i].v["user_id"] /= IntStr(seq)

\* C10 as stated: a /submit that adds no row answers with an error status, 400,
\* 409 or 500; the redirect to /success is its only other answer.
C10_FailureHasErrorStatus ==
    \A t \in Workers :
        DoneSubmit(t) =>
            /\ ~Added(t) => resp[t].status \in {400, 409, 500}
            /\ resp[t].status \notin {400, 409, 500} => Redirected(t)

====
